---- MODULE Spec2Model ----
(***************************************************************************)
(* A model of the Joyride oracle service: the TWAP calculator              *)
(* (src/src/twap.rs), the Pyth Hermes client (src/src/pyth.rs), the        *)
(* settlement timing and the tasks of main (src/src/main.rs) and the       *)
(* WebSocket server (src/src/server.rs).                                   *)
(*                                                                         *)
(* f64 prices are modelled as integers and the results of f64 divisions    *)
(* (twap_price, coverage) as reduced fractions <<num, den>>: for the       *)
(* magnitudes involved the IEEE division num/den is the double nearest to  *)
(* the rational, so equality and order of the fractions are those of the   *)
(* doubles.                                                                *)
(***************************************************************************)
EXTENDS Integers, Sequences, FiniteSets, TLC

VARIABLES
    samples,              \* TwapCalculator.samples: HashMap<String, Vec<TwapSample>>
    last_sample_time,     \* TwapCalculator.last_sample_time: HashMap<String, i64>
    window_secs,          \* TwapCalculator.window_secs
    sample_interval_secs, \* TwapCalculator.sample_interval_secs
    twap_op,              \* the TwapCalculator method called last
    twap_ret,             \* what that call returned
    hermes_url_ok,        \* PythClient.hermes_url: whether the stream URL built from it parses
    pyth_pc,              \* where PythClient::run is
    stream_result,        \* what connect_and_stream returned to run
    streams_open,         \* the SSE streams alive (the local `stream` of connect_and_stream)
    cycle,                \* the events sent on event_tx since the last Disconnected
    last_item,            \* the `event` of the while loop of connect_and_stream, if in it
    sleep_secs,           \* the duration of the sleep run last started
    failures,             \* the consecutive Err returns of connect_and_stream so far
    round_hours_env,      \* the environment's ROUND_DURATION_HOURS, if set
    now_secs,             \* the time the timer task read last
    settlement_info,      \* what calculate_settlement_info returned for it
    bind_ok,              \* whether TcpListener::bind succeeded in run_server
    emitted,              \* every event the Pyth client passed to event_tx.send, in order
    event_chan,           \* the mpsc channel (event_tx, event_rx): the events waiting in it
    main_pc,              \* where the event loop of main is
    main_event,           \* the `event` of the event loop
    lock_writer,          \* the RwLock of the calculator: a write guard is held
    lock_readers,         \* the RwLock of the calculator: the read guards held
    tick_pc,              \* where the timer task is
    tick_asset,           \* the index in ASSETS the timer task's for loop is at
    bus_log,              \* every event sent on broadcast_tx, in order
    server_rx,            \* the position of the forwarder's receiver in bus_log
    client_log,           \* every message sent on client_tx, in order
    clients               \* the connections: handle_client's state and receiver

twap_store == <<samples, last_sample_time>>
twap_config == <<window_secs, sample_interval_secs>>
twap_vars == <<samples, last_sample_time, window_secs, sample_interval_secs, twap_op, twap_ret>>
pyth_vars == <<hermes_url_ok, pyth_pc, stream_result, streams_open, cycle, last_item,
               sleep_secs, failures>>
clock_vars == <<round_hours_env, now_secs, settlement_info>>
bus_vars == <<bind_ok, emitted, event_chan, main_pc, main_event, lock_writer, lock_readers,
              tick_pc, tick_asset, bus_log, server_rx, client_log, clients>>
vars == <<twap_vars, pyth_vars, clock_vars, bus_vars>>

----------------------------------------------------------------------------
(* Bounds of the model. *)

\* timestamps of the updates offered to the calculator are 0..MaxTime
MaxTime == 2
\* timestamps offered in the coverage specification are 0..MaxTimeCov
MaxTimeCov == 10

\* the symbols, prices and windows the calculator is exercised with
TwapSymbols == {"SOL", "BTC"}
TwapPrices == {1, 2}
SmallWindow == 2
CovWindow == 10

\* the records of one SSE message are at most MaxRecords
MaxRecords == 2
\* a message is taken from the stream while the cycle holds at most MaxCycle events
MaxCycle == 1
\* the count of consecutive failures is kept up to MaxFailures
MaxFailures == 3
\* the clock is read within MaxRounds rounds before and after the epoch
MaxRounds == 2
\* the capacity of the three channels of the service (256 each in the program)
ChannelCapacity == 2
\* the Pyth client passes at most MaxEmitted events to the orchestrator
MaxEmitted == 3
\* the timer task ticks at most MaxTicks times
MaxTicks == 1
\* the connections the server accepts, in the order it accepts them
Clients == <<"a", "b">>

----------------------------------------------------------------------------
(* Program constants. *)

DEFAULT_TWAP_WINDOW_SECS == 1800
DEFAULT_SAMPLE_INTERVAL_SECS == 1
\* MIN_COVERAGE = 0.90 as the fraction MIN_COVERAGE_NUM / MIN_COVERAGE_DEN
MIN_COVERAGE_NUM == 9
MIN_COVERAGE_DEN == 10
\* tokio::time::Duration::from_secs(5) of PythClient::run
RECONNECT_DELAY_SECS == 5
\* main.rs: 30 * 60
TWAP_WINDOW_SECS == 1800
ROUND_EPOCH_SECS == 1735718400
DEFAULT_ROUND_DURATION_HOURS == 24
SECS_PER_HOUR == 3600

----------------------------------------------------------------------------
(* Values. *)

None == [some |-> FALSE]
Some(x) == [some |-> TRUE, val |-> x]
Ok(x) == [ok |-> TRUE, val |-> x]
Err(e) == [ok |-> FALSE, err |-> e]

RECURSIVE GCD(_, _)
GCD(a, b) == IF b = 0 THEN a ELSE GCD(b, a % b)

\* the f64 quotient n / d of two non-negative counts or sums, d > 0
Frac(n, d) == LET g == GCD(n, d) IN <<n \div g, d \div g>>
FracLess(p, q) == p[1] * q[2] < q[1] * p[2]
FracMinMutant(p, q) == p
FracMin(p, q) == IF FracLess(q, p) THEN q ELSE p
Zero == <<0, 1>>
One == <<1, 1>>
MIN_COVERAGE == Frac(MIN_COVERAGE_NUM, MIN_COVERAGE_DEN)

PriceUpdate(symbol, price, publish_time) ==
    [symbol |-> symbol, price |-> price, publish_time |-> publish_time]

TwapSample(price, timestamp) == [price |-> price, timestamp |-> timestamp]

\* HashMap operations
MapInsert(m, k, v) == [x \in DOMAIN m \cup {k} |-> IF x = k THEN v ELSE m[x]]
MapRemove(m, k) == [x \in DOMAIN m \ {k} |-> m[x]]
EmptyMap == [x \in {} |-> 0]

RECURSIVE SumPrices(_)
SumPrices(s) == IF s = <<>> THEN 0 ELSE s[1].price + SumPrices(Tail(s))

----------------------------------------------------------------------------
(* Strings are sequences of one-character strings. *)

to_lowercase_char(c) ==
    CASE c = "A" -> "a" [] c = "B" -> "b" [] c = "C" -> "c" [] c = "D" -> "d"
      [] c = "E" -> "e" [] c = "F" -> "f" [] c = "X" -> "x" [] OTHER -> c

to_lowercase(str) == [i \in DOMAIN str |-> to_lowercase_char(str[i])]

starts_with(str, prefix) ==
    Len(str) >= Len(prefix) /\ SubSeq(str, 1, Len(prefix)) = prefix

Digits == {"0", "1", "2", "3", "4", "5", "6", "7", "8", "9"}
DigitValue(c) ==
    CASE c = "0" -> 0 [] c = "1" -> 1 [] c = "2" -> 2 [] c = "3" -> 3 [] c = "4" -> 4
      [] c = "5" -> 5 [] c = "6" -> 6 [] c = "7" -> 7 [] c = "8" -> 8 [] c = "9" -> 9

RECURSIVE DigitsValue(_)
DigitsValue(str) ==
    IF str = <<>> THEN 0
    ELSE 10 * DigitsValue(SubSeq(str, 1, Len(str) - 1)) + DigitValue(str[Len(str)])

\* str.parse::<i64>().ok(): an optional sign, then one or more digits
parse_i64(str) ==
    LET signed == str # <<>> /\ str[1] \in {"-", "+"}
        digits == IF signed THEN Tail(str) ELSE str
    IN  IF digits = <<>> \/ \E i \in DOMAIN digits : digits[i] \notin Digits
        THEN None
        ELSE Some(IF signed /\ str[1] = "-" THEN 0 - DigitsValue(digits)
                  ELSE DigitsValue(digits))

----------------------------------------------------------------------------
(* Assets.  The 64 hex digits of a feed id are cut to its first two. *)

Assets == <<"Sol", "Btc", "Eth">>

feed_id(asset) ==
    CASE asset = "Sol" -> <<"0", "x", "e", "f">>
      [] asset = "Btc" -> <<"0", "x", "e", "6">>
      [] asset = "Eth" -> <<"0", "x", "f", "f">>

asset_symbol(asset) ==
    CASE asset = "Sol" -> "SOL" [] asset = "Btc" -> "BTC" [] asset = "Eth" -> "ETH"

from_feed_id(id) ==
    IF id = feed_id("Sol") THEN Some("Sol")
    ELSE IF id = feed_id("Btc") THEN Some("Btc")
    ELSE IF id = feed_id("Eth") THEN Some("Eth")
    ELSE None

----------------------------------------------------------------------------
(* PythClient *)

\* raw * 10^expo as f64, kept as the pair
Scaled(raw, expo) == [raw |-> raw, expo |-> expo]

normalize_feed_id(id) ==
    IF starts_with(id, <<"0", "x">>)
    THEN to_lowercase(id)
    ELSE <<"0", "x">> \o to_lowercase(id)

parse_price_update(parsed) ==
    LET id == normalize_feed_id(parsed.id)
        asset == from_feed_id(id)
        price_raw == parse_i64(parsed.price.price)
        conf_raw == parse_i64(parsed.price.conf)
    IN  IF ~asset.some THEN None
        ELSE IF ~price_raw.some THEN None
        ELSE IF ~conf_raw.some THEN None
        ELSE Some([symbol |-> asset_symbol(asset.val),
                   price |-> Scaled(price_raw.val, parsed.price.expo),
                   confidence |-> Scaled(conf_raw.val, parsed.price.expo),
                   publish_time |-> parsed.price.publish_time,
                   feed_id |-> id])

\* OracleEvent
Connected == [type |-> "connected"]
Disconnected == [type |-> "disconnected"]
Error(message) == [type |-> "error", message |-> message]
Price(update) == [type |-> "price", update |-> update]

\* event_tx.send(event): the events sent are kept from the last Disconnected on
send(events) ==
    IF cycle # <<>> /\ cycle[Len(cycle)] = Disconnected
    THEN events
    ELSE cycle \o events

\* the loop left at the first record that does not parse
RECURSIVE price_eventsMutant(_)
price_eventsMutant(parsed_list) ==
    IF parsed_list = <<>> THEN <<>>
    ELSE LET price_update == parse_price_update(parsed_list[1])
         IN  IF price_update.some
             THEN <<Price(price_update.val)>> \o price_eventsMutant(Tail(parsed_list))
             ELSE <<>>

\* the for loop over update.parsed: one Price per record that parses
RECURSIVE price_events(_)
price_events(parsed_list) ==
    IF parsed_list = <<>> THEN <<>>
    ELSE LET price_update == parse_price_update(parsed_list[1])
         IN  (IF price_update.some THEN <<Price(price_update.val)>> ELSE <<>>)
                 \o price_events(Tail(parsed_list))

PythIdle ==
    /\ hermes_url_ok = TRUE
    /\ pyth_pc = "connect"
    /\ stream_result = None
    /\ streams_open = 0
    /\ cycle = <<>>
    /\ last_item = None
    /\ sleep_secs = 0
    /\ failures = 0

\* connect_and_stream up to its while loop: ClientBuilder::for_url(&url)? returns
\* the error of a url that does not parse, before anything is sent
connect_and_stream ==
    /\ pyth_pc = "connect"
    /\ IF hermes_url_ok
       THEN /\ streams_open' = streams_open + 1
            /\ cycle' = send(<<Connected>>)
            /\ pyth_pc' = "streaming"
            /\ UNCHANGED stream_result
       ELSE /\ stream_result' = Err("invalid url")
            /\ pyth_pc' = "returned"
            /\ UNCHANGED <<streams_open, cycle>>
    /\ last_item' = None
    /\ UNCHANGED <<hermes_url_ok, sleep_secs, failures>>

\* one turn of `while let Some(event) = stream.next().await`
stream_next(item) ==
    /\ pyth_pc = "streaming"
    /\ CASE item.kind = "event" /\ item.event_type = "message" /\ item.json_ok ->
              /\ cycle' = send(price_events(item.parsed))
              /\ UNCHANGED <<pyth_pc, stream_result, streams_open>>
         [] item.kind = "event" /\ item.event_type = "message" /\ ~item.json_ok ->
              UNCHANGED <<pyth_pc, stream_result, streams_open, cycle>>
         [] item.kind = "event" /\ item.event_type # "message" ->
              UNCHANGED <<pyth_pc, stream_result, streams_open, cycle>>
         [] item.kind \in {"comment", "connected"} ->
              UNCHANGED <<pyth_pc, stream_result, streams_open, cycle>>
         [] item.kind = "error" ->
              /\ stream_result' = Err("SSE stream error")
              /\ streams_open' = streams_open - 1
              /\ pyth_pc' = "returned"
              /\ UNCHANGED cycle
         [] item.kind = "end" ->
              /\ stream_result' = Ok("unit")
              /\ streams_open' = streams_open - 1
              /\ pyth_pc' = "returned"
              /\ UNCHANGED cycle
    /\ last_item' = (IF item.kind \in {"error", "end"} THEN None ELSE Some(item))
    /\ UNCHANGED <<hermes_url_ok, sleep_secs, failures>>

inc_failures == IF failures < MaxFailures THEN failures + 1 ELSE failures

\* an Error sent for the graceful end too
run_matchMutant ==
    /\ pyth_pc = "returned"
    /\ failures' = (IF stream_result.ok THEN 0 ELSE inc_failures)
    /\ cycle' = send(<<Error(IF stream_result.ok THEN "closed" ELSE stream_result.err)>>)
    /\ pyth_pc' = "disconnect"
    /\ UNCHANGED <<hermes_url_ok, stream_result, streams_open, last_item, sleep_secs>>

\* the match of run on what connect_and_stream returned
run_match ==
    /\ pyth_pc = "returned"
    /\ IF stream_result.ok
       THEN /\ failures' = 0
            /\ UNCHANGED cycle
       ELSE /\ failures' = inc_failures
            /\ cycle' = send(<<Error(stream_result.err)>>)
    /\ pyth_pc' = "disconnect"
    /\ UNCHANGED <<hermes_url_ok, stream_result, streams_open, last_item, sleep_secs>>

\* the delay of the sleep: the same after any number of failures
reconnect_delayMutant == RECONNECT_DELAY_SECS * (failures + 1)
reconnect_delay == RECONNECT_DELAY_SECS

\* Disconnected sent after an error only
run_send_disconnectedMutant ==
    /\ pyth_pc = "disconnect"
    /\ cycle' = (IF stream_result.ok THEN cycle ELSE send(<<Disconnected>>))
    /\ pyth_pc' = "sleep"
    /\ sleep_secs' = reconnect_delay
    /\ UNCHANGED <<hermes_url_ok, stream_result, streams_open, last_item, failures>>

run_send_disconnected ==
    /\ pyth_pc = "disconnect"
    /\ cycle' = send(<<Disconnected>>)
    /\ pyth_pc' = "sleep"
    /\ sleep_secs' = reconnect_delay
    /\ UNCHANGED <<hermes_url_ok, stream_result, streams_open, last_item, failures>>

\* the sleep is over and the loop starts again
run_sleep_elapsed ==
    /\ pyth_pc = "sleep"
    /\ pyth_pc' = "connect"
    /\ stream_result' = None
    /\ UNCHANGED <<hermes_url_ok, streams_open, cycle, last_item, sleep_secs, failures>>

----------------------------------------------------------------------------
(* TwapCalculator *)

with_window(w) ==
    /\ samples = EmptyMap
    /\ last_sample_time = EmptyMap
    /\ window_secs = w
    /\ sample_interval_secs = DEFAULT_SAMPLE_INTERVAL_SECS
    /\ twap_op = "new"
    /\ twap_ret = None

\* record's early return: the interval check against the last accepted time
record_rejectsMutant(update) ==
    /\ update.symbol \in DOMAIN last_sample_time
    /\ update.publish_time - last_sample_time[update.symbol] <= sample_interval_secs
record_rejects(update) ==
    /\ update.symbol \in DOMAIN last_sample_time
    /\ update.publish_time - last_sample_time[update.symbol] < sample_interval_secs

\* the last accepted timestamp written for a new symbol only
recordMutant(update) ==
    /\ twap_op' = "record"
    /\ IF record_rejects(update)
       THEN /\ twap_ret' = FALSE
            /\ UNCHANGED twap_store
       ELSE /\ samples' = MapInsert(samples, update.symbol,
                   Append(IF update.symbol \in DOMAIN samples
                          THEN samples[update.symbol] ELSE <<>>,
                          TwapSample(update.price, update.publish_time)))
            /\ last_sample_time' =
                   IF update.symbol \in DOMAIN last_sample_time
                   THEN last_sample_time
                   ELSE MapInsert(last_sample_time, update.symbol, update.publish_time)
            /\ twap_ret' = TRUE
    /\ UNCHANGED twap_config
record(update) ==
    /\ twap_op' = "record"
    /\ IF record_rejects(update)
       THEN /\ twap_ret' = FALSE
            /\ UNCHANGED twap_store
       ELSE /\ samples' = MapInsert(samples, update.symbol,
                   Append(IF update.symbol \in DOMAIN samples
                          THEN samples[update.symbol] ELSE <<>>,
                          TwapSample(update.price, update.publish_time)))
            /\ last_sample_time' =
                   MapInsert(last_sample_time, update.symbol, update.publish_time)
            /\ twap_ret' = TRUE
    /\ UNCHANGED twap_config

sample_count(symbol) ==
    IF symbol \in DOMAIN samples THEN Len(samples[symbol]) ELSE 0

\* one sample more than the window holds
expected_samplesMutant == window_secs \div sample_interval_secs + 1
expected_samples == window_secs \div sample_interval_secs

\* the filter of calculate and calculate_preview
in_windowMutant(s, window_start, window_end) ==
    s.timestamp >= window_start /\ s.timestamp < window_end
in_window(s, window_start, window_end) ==
    s.timestamp >= window_start /\ s.timestamp <= window_end

\* the start of the window left out
window_samplesMutant(symbol, window_start, window_end) ==
    SelectSeq(samples[symbol], LAMBDA s : in_window(s, window_start + 1, window_end))
window_samples(symbol, window_start, window_end) ==
    SelectSeq(samples[symbol], LAMBDA s : in_window(s, window_start, window_end))

calculate(symbol, window_end) ==
    IF symbol \notin DOMAIN samples THEN None
    ELSE LET window_start == window_end - window_secs
             ws == window_samples(symbol, window_start, window_end)
         IN  IF ws = <<>> THEN None
             ELSE Some([symbol |-> symbol,
                        twap_price |-> Frac(SumPrices(ws), Len(ws)),
                        window_start |-> window_start,
                        window_end |-> window_end,
                        sample_count |-> Len(ws),
                        coverage |-> Frac(Len(ws), expected_samples)])

NoSamples == [kind |-> "NoSamples"]
InsufficientCoverage(actual, required) ==
    [kind |-> "InsufficientCoverage", actual |-> actual, required |-> required]

below_min_coverageMutant(coverage) == ~FracLess(MIN_COVERAGE, coverage)
below_min_coverage(coverage) == FracLess(coverage, MIN_COVERAGE)

calculate_validated(symbol, window_end) ==
    LET result == calculate(symbol, window_end)
    IN  IF ~result.some THEN Err(NoSamples)
        ELSE IF below_min_coverage(result.val.coverage)
             THEN Err(InsufficientCoverage(result.val.coverage, MIN_COVERAGE))
             ELSE Ok(result.val)

calculate_preview(symbol, current_time, in_settlement_window) ==
    IF symbol \notin DOMAIN samples THEN None
    ELSE LET window_start == current_time - window_secs
             ws == window_samples(symbol, window_start, current_time)
         IN  IF ws = <<>>
             THEN Some([symbol |-> symbol,
                        twap_price |-> Zero,
                        sample_count |-> 0,
                        coverage |-> Zero,
                        in_settlement_window |-> in_settlement_window])
             ELSE Some([symbol |-> symbol,
                        twap_price |-> Frac(SumPrices(ws), Len(ws)),
                        sample_count |-> Len(ws),
                        coverage |-> FracMin(Frac(Len(ws), expected_samples), One),
                        in_settlement_window |-> in_settlement_window])

\* the samples removed and the last accepted timestamp kept
clearMutant(symbol) ==
    /\ samples' = MapRemove(samples, symbol)
    /\ twap_op' = "clear"
    /\ twap_ret' = None
    /\ UNCHANGED <<last_sample_time, twap_config>>
clear(symbol) ==
    /\ samples' = MapRemove(samples, symbol)
    /\ last_sample_time' = MapRemove(last_sample_time, symbol)
    /\ twap_op' = "clear"
    /\ twap_ret' = None
    /\ UNCHANGED twap_config

\* the predicate of prune's retain
retainedMutant(s, before_timestamp) == s.timestamp > before_timestamp
retained(s, before_timestamp) == s.timestamp >= before_timestamp

\* the entries left empty removed from the map
prune_samplesMutant(m, before_timestamp) ==
    LET kept == [symbol \in DOMAIN m |->
                    SelectSeq(m[symbol], LAMBDA s : retained(s, before_timestamp))]
    IN  [symbol \in {x \in DOMAIN m : kept[x] # <<>>} |-> kept[symbol]]
\* prune's loop over the map, on a map m
prune_samples(m, before_timestamp) ==
    [symbol \in DOMAIN m |->
        SelectSeq(m[symbol], LAMBDA s : retained(s, before_timestamp))]

prune(before_timestamp) ==
    /\ samples' = prune_samples(samples, before_timestamp)
    /\ twap_op' = "prune"
    /\ twap_ret' = None
    /\ UNCHANGED <<last_sample_time, twap_config>>

\* the &self methods, called and their result kept
calculate_call(symbol, window_end) ==
    /\ twap_op' = "calculate"
    /\ twap_ret' = calculate(symbol, window_end)
    /\ UNCHANGED <<twap_store, twap_config>>

calculate_validated_call(symbol, window_end) ==
    /\ twap_op' = "calculate_validated"
    /\ twap_ret' = calculate_validated(symbol, window_end)
    /\ UNCHANGED <<twap_store, twap_config>>

calculate_preview_call(symbol, current_time, in_settlement_window) ==
    /\ twap_op' = "calculate_preview"
    /\ twap_ret' = calculate_preview(symbol, current_time, in_settlement_window)
    /\ UNCHANGED <<twap_store, twap_config>>

----------------------------------------------------------------------------
(* The settlement clock of main.rs. *)

Min(a, b) == IF a < b THEN a ELSE b
\* the first argument, whatever the second
MaxMutant(a, b) == a
Max(a, b) == IF a > b THEN a ELSE b

\* i64::div_euclid for a positive divisor: the quotient rounded down
div_euclidMutant(a, b) == IF a >= 0 THEN a \div b ELSE 0 - ((0 - a) \div b)
div_euclid(a, b) == a \div b

\* std::env::var("ROUND_DURATION_HOURS").ok().and_then(|v| v.parse().ok()).unwrap_or(24) * 3600
round_duration_secs ==
    LET hours == IF round_hours_env.some /\ parse_i64(round_hours_env.val).some
                 THEN parse_i64(round_hours_env.val).val
                 ELSE DEFAULT_ROUND_DURATION_HOURS
    IN  hours * SECS_PER_HOUR

\* the boundary reached by rounding the rounds up: now itself on a boundary
next_settlement_afterMutant(elapsed, duration) ==
    ROUND_EPOCH_SECS
        + (IF elapsed % duration = 0 THEN div_euclid(elapsed, duration)
           ELSE div_euclid(elapsed, duration) + 1) * duration
next_settlement_after(elapsed, duration) ==
    LET rounds_elapsed == div_euclid(elapsed, duration)
    IN  ROUND_EPOCH_SECS + (rounds_elapsed + 1) * duration

calculate_settlement_info(now) ==
    LET duration == round_duration_secs
        elapsed == now - ROUND_EPOCH_SECS
        next_settlement == next_settlement_after(elapsed, duration)
        seconds_to_settlement == next_settlement - now
        twap_window_start == next_settlement - Min(TWAP_WINDOW_SECS, duration)
        seconds_to_twap_window == Max(twap_window_start - now, 0)
        in_twap_window == /\ seconds_to_settlement <= Min(TWAP_WINDOW_SECS, duration)
                          /\ seconds_to_settlement > 0
    IN  [next_settlement |-> next_settlement,
         twap_window_start |-> twap_window_start,
         seconds_to_twap_window |-> seconds_to_twap_window,
         seconds_to_settlement |-> seconds_to_settlement,
         in_twap_window |-> in_twap_window]

ClockIdle ==
    /\ round_hours_env = None
    /\ now_secs = ROUND_EPOCH_SECS
    /\ settlement_info = None

\* the orchestrator and the server before anything was sent or accepted
NoClient ==
    [state |-> "none", next |-> 0, pending |-> None, received |-> <<>>,
     lagged |-> FALSE, sub_at |-> 0]
\* handle_client has returned: the receiver and the socket are dropped
ClosedClient == [NoClient EXCEPT !.state = "closed"]

BusIdle ==
    /\ bind_ok = TRUE
    /\ emitted = <<>>
    /\ event_chan = <<>>
    /\ main_pc = "recv"
    /\ main_event = None
    /\ lock_writer = FALSE
    /\ lock_readers = 0
    /\ tick_pc = "tick"
    /\ tick_asset = 1
    /\ bus_log = <<>>
    /\ server_rx = 0
    /\ client_log = <<>>
    /\ clients = [c \in DOMAIN Clients |-> NoClient]

\* the timer task reads the clock and computes the settlement info
timer_tick(now) ==
    /\ now_secs' = now
    /\ settlement_info' = Some(calculate_settlement_info(now))
    /\ UNCHANGED round_hours_env

\* ROUND_DURATION_HOURS unset, a positive number of hours, or no number
HoursEnv == {None, Some(<<"1">>), Some(<<"2">>), Some(<<"4", "8">>), Some(<<"x">>)}

\* the instants read: around the round boundaries and the openings of the window
Instants ==
    LET D == round_duration_secs
        W == TWAP_WINDOW_SECS
    IN  {ROUND_EPOCH_SECS + k * D + o :
            k \in (0 - MaxRounds)..MaxRounds,
            o \in {0, 1, D - 1, D - W - 1, D - W, D - W + 1, D \div 2}}

ClockInit ==
    /\ round_hours_env \in HoursEnv
    /\ now_secs = ROUND_EPOCH_SECS
    /\ settlement_info = None
    /\ with_window(TWAP_WINDOW_SECS)
    /\ PythIdle
    /\ BusIdle

ClockNext ==
    \E now \in Instants : timer_tick(now) /\ UNCHANGED <<twap_vars, pyth_vars, bus_vars>>

SpecClock == ClockInit /\ [][ClockNext]_vars

----------------------------------------------------------------------------
(* The store driven by any sequence of record, prune and clear: two        *)
(* symbols, two prices, a window of SmallWindow seconds.  The &self        *)
(* methods are operators of the state, read in every reachable state.      *)

Times == 0..MaxTime
\* window ends and prune cutoffs reach one second before and after the samples
Ends == -1..(MaxTime + SmallWindow + 1)
Cutoffs == -1..(MaxTime + 1)
Updates == {PriceUpdate(s, p, t) : s \in TwapSymbols, p \in TwapPrices, t \in Times}

TwapInit == with_window(SmallWindow) /\ PythIdle /\ ClockIdle /\ BusIdle

TwapNext ==
    \/ \E u \in Updates : record(u) /\ UNCHANGED <<pyth_vars, clock_vars, bus_vars>>
    \/ \E c \in Cutoffs : prune(c) /\ UNCHANGED <<pyth_vars, clock_vars, bus_vars>>
    \/ \E s \in TwapSymbols : clear(s) /\ UNCHANGED <<pyth_vars, clock_vars, bus_vars>>

SpecTwap == TwapInit /\ [][TwapNext]_vars

----------------------------------------------------------------------------
(* The calculator with a window of CovWindow seconds, one symbol and one   *)
(* price, every method called as a step: expected_samples is 10, so that   *)
(* coverages of 0.8, 0.9, 1.0 and 1.1 all occur.                           *)

CovSymbol == "SOL"
CovPrices == {1}
CovTimes == 0..MaxTimeCov
CovEnds == {-1} \cup (MaxTimeCov - 1)..(MaxTimeCov + 1)
CovCutoffs == 0..(MaxTimeCov + 1)

CovInit == with_window(CovWindow) /\ PythIdle /\ ClockIdle /\ BusIdle

CovNext ==
    \/ \E t \in CovTimes, p \in CovPrices :
          record(PriceUpdate(CovSymbol, p, t)) /\ UNCHANGED <<pyth_vars, clock_vars, bus_vars>>
    \/ \E c \in CovCutoffs : prune(c) /\ UNCHANGED <<pyth_vars, clock_vars, bus_vars>>
    \/ clear(CovSymbol) /\ UNCHANGED <<pyth_vars, clock_vars, bus_vars>>
    \/ \E e \in CovEnds : calculate_call(CovSymbol, e) /\ UNCHANGED <<pyth_vars, clock_vars, bus_vars>>
    \/ \E e \in CovEnds : calculate_validated_call(CovSymbol, e) /\ UNCHANGED <<pyth_vars, clock_vars, bus_vars>>
    \/ \E e \in CovEnds, f \in BOOLEAN :
          calculate_preview_call(CovSymbol, e, f) /\ UNCHANGED <<pyth_vars, clock_vars, bus_vars>>

SpecCov == CovInit /\ [][CovNext]_vars

----------------------------------------------------------------------------
(* The client driven by any stream: what stream.next() returns is the      *)
(* environment's choice.                                                   *)

ParsedPrice(id, price, conf) ==
    [id |-> id, price |-> [price |-> price, conf |-> conf, expo |-> -8, publish_time |-> 1]]

\* records of tracked feeds, in the canonical form of the id
SolRecord == ParsedPrice(<<"0", "x", "e", "f">>, <<"4", "2">>, <<"1">>)
BtcRecord == ParsedPrice(<<"0", "x", "e", "6">>, <<"-", "7">>, <<"3">>)
\* ids of tracked feeds in other forms: no prefix and upper case, upper-case prefix
BtcBareRecord == ParsedPrice(<<"E", "6">>, <<"7">>, <<"1">>)
EthUpperRecord == ParsedPrice(<<"0", "X", "F", "F">>, <<"9">>, <<"1">>)
\* records that do not decode: a feed that is not tracked, mantissas that are no integers
UnknownRecord == ParsedPrice(<<"0", "x", "a", "b">>, <<"4", "2">>, <<"1">>)
BadPriceRecord == ParsedPrice(<<"0", "x", "e", "f">>, <<"4", "x">>, <<"1">>)
BadConfRecord == ParsedPrice(<<"0", "x", "e", "6">>, <<"4", "2">>, <<>>)

CanonicalRecords == {SolRecord, BtcRecord}
OtherFormRecords == {BtcBareRecord, EthUpperRecord}
UndecodableRecords == {UnknownRecord, BadPriceRecord, BadConfRecord}
PythRecords == CanonicalRecords \cup OtherFormRecords \cup UndecodableRecords

SeqsUpTo(S, n) == UNION {[1..k -> S] : k \in 0..n}

Message(parsed) ==
    [kind |-> "event", event_type |-> "message", json_ok |-> TRUE, parsed |-> parsed]
BadJsonMessage ==
    [kind |-> "event", event_type |-> "message", json_ok |-> FALSE, parsed |-> <<>>]
OtherEvent ==
    [kind |-> "event", event_type |-> "ping", json_ok |-> FALSE, parsed |-> <<>>]

StreamItems ==
    {Message(parsed) : parsed \in SeqsUpTo(PythRecords, MaxRecords)}
        \cup {BadJsonMessage, OtherEvent}
        \cup {[kind |-> k] : k \in {"comment", "connected", "error", "end"}}

PythNext ==
    \/ connect_and_stream /\ UNCHANGED <<twap_vars, clock_vars, bus_vars>>
    \/ \E item \in StreamItems :
          /\ item.kind = "event" => Len(cycle) <= MaxCycle
          /\ stream_next(item)
          /\ UNCHANGED <<twap_vars, clock_vars, bus_vars>>
    \/ run_match /\ UNCHANGED <<twap_vars, clock_vars, bus_vars>>
    \/ run_send_disconnected /\ UNCHANGED <<twap_vars, clock_vars, bus_vars>>
    \/ run_sleep_elapsed /\ UNCHANGED <<twap_vars, clock_vars, bus_vars>>

\* PythClient::new (HERMES_URL, which parses) or PythClient::with_url (any url)
PythSpecInit ==
    /\ hermes_url_ok \in BOOLEAN
    /\ pyth_pc = "connect" /\ stream_result = None /\ streams_open = 0
    /\ cycle = <<>> /\ last_item = None /\ sleep_secs = 0 /\ failures = 0
    /\ samples = EmptyMap /\ last_sample_time = EmptyMap
    /\ window_secs = SmallWindow
    /\ sample_interval_secs = DEFAULT_SAMPLE_INTERVAL_SECS
    /\ twap_op = "new" /\ twap_ret = None
    /\ ClockIdle
    /\ BusIdle

SpecPyth == PythSpecInit /\ [][PythNext]_vars

\* the steps of run are taken when they can be; the stream owes nothing
FairSpecPyth ==
    /\ SpecPyth
    /\ WF_vars(connect_and_stream /\ UNCHANGED <<twap_vars, clock_vars, bus_vars>>)
    /\ WF_vars(run_match /\ UNCHANGED <<twap_vars, clock_vars, bus_vars>>)
    /\ WF_vars(run_send_disconnected /\ UNCHANGED <<twap_vars, clock_vars, bus_vars>>)
    /\ WF_vars(run_sleep_elapsed /\ UNCHANGED <<twap_vars, clock_vars, bus_vars>>)

----------------------------------------------------------------------------
(* The orchestrator of main.rs and the server of server.rs: the Pyth       *)
(* client's events pass through the mpsc channel to the event loop, which  *)
(* sends them on the broadcast channel and records the prices; the timer   *)
(* task sends the settlement info and the previews; the forwarder task     *)
(* passes the broadcast to the connections' channel.                       *)

\* OracleEvent: the variants the timer task sends
Settlement(info) == [type |-> "settlement", info |-> info]
TwapPreview(preview) == [type |-> "twap_preview", preview |-> preview]

\* serde_json::to_string(&event): the tag "type" beside the fields of the variant
to_string(event) ==
    CASE event.type = "price" -> [type |-> "price"] @@ event.update
      [] event.type = "settlement" -> [type |-> "settlement"] @@ event.info
      [] event.type = "twap_preview" -> [type |-> "twap_preview"] @@ event.preview
      [] OTHER -> event

\* tokio::sync::broadcast.  A channel is the sequence of the values sent on it;
\* it retains the last ChannelCapacity of them, and a receiver is the number
\* of values it has taken or skipped.
oldest_retained(tail) == Max(tail - ChannelCapacity, 0)

\* Sender::send is no async fn: it overwrites the oldest value and never waits
broadcast_send_readyMutant(tail, receivers) ==
    \A next \in receivers : tail - next < ChannelCapacity
broadcast_send_ready(tail, receivers) == TRUE

\* the cursor of a receiver after it took a value
recv_advanceMutant(next) == next
recv_advance(next) == next + 1

\* Receiver::recv: Lagged moves the receiver to the oldest value retained
broadcast_recv(log, next) ==
    IF next < oldest_retained(Len(log))
    THEN [kind |-> "lagged", next |-> oldest_retained(Len(log))]
    ELSE IF next < Len(log)
         THEN [kind |-> "ok", next |-> recv_advance(next), value |-> log[next + 1]]
         ELSE [kind |-> "pending", next |-> next]

\* the receivers of broadcast_tx: server_rx, dropped when run_server returns
bus_receivers == IF bind_ok THEN {server_rx} ELSE {}

\* the receivers of client_tx: one for each connection handle_client runs for
LiveStates == {"handshake", "open", "sending"}
client_receivers == {clients[c].next : c \in {d \in DOMAIN Clients : clients[d].state \in LiveStates}}

\* an event dropped when the channel is full
mpsc_sendMutant(event) ==
    /\ Len(emitted) < MaxEmitted
    /\ emitted' = Append(emitted, event)
    /\ event_chan' = (IF Len(event_chan) < ChannelCapacity
                      THEN Append(event_chan, event) ELSE event_chan)
    /\ UNCHANGED <<bind_ok, main_pc, main_event, lock_writer, lock_readers, tick_pc,
                   tick_asset, bus_log, server_rx, client_log, clients>>

\* self.event_tx.send(event).await in PythClient: waits while the channel is full
mpsc_send(event) ==
    /\ Len(emitted) < MaxEmitted
    /\ Len(event_chan) < ChannelCapacity
    /\ emitted' = Append(emitted, event)
    /\ event_chan' = Append(event_chan, event)
    /\ UNCHANGED <<bind_ok, main_pc, main_event, lock_writer, lock_readers, tick_pc,
                   tick_asset, bus_log, server_rx, client_log, clients>>

\* event_rx.recv().await and broadcast_tx_clone.send(event.clone())
main_recv ==
    /\ main_pc = "recv"
    /\ event_chan # <<>>
    /\ broadcast_send_ready(Len(bus_log), bus_receivers)
    /\ event_chan' = Tail(event_chan)
    /\ bus_log' = Append(bus_log, Head(event_chan))
    /\ IF Head(event_chan).type = "price"
       THEN main_pc' = "write" /\ main_event' = Some(Head(event_chan))
       ELSE main_pc' = "recv" /\ main_event' = None
    /\ UNCHANGED <<bind_ok, emitted, lock_writer, lock_readers, tick_pc, tick_asset,
                   server_rx, client_log, clients>>

\* a write guard granted while a read guard is held
main_writeMutant ==
    /\ main_pc = "write"
    /\ ~lock_writer
    /\ lock_writer' = TRUE
    /\ main_pc' = "record"
    /\ UNCHANGED <<bind_ok, emitted, event_chan, main_event, lock_readers, tick_pc,
                   tick_asset, bus_log, server_rx, client_log, clients>>

\* twap_clone.write().await: granted when no guard is held
main_write ==
    /\ main_pc = "write"
    /\ ~lock_writer /\ lock_readers = 0
    /\ lock_writer' = TRUE
    /\ main_pc' = "record"
    /\ UNCHANGED <<bind_ok, emitted, event_chan, main_event, lock_readers, tick_pc,
                   tick_asset, bus_log, server_rx, client_log, clients>>

\* twap.record(update), and the write guard dropped at the end of the arm
main_record ==
    /\ main_pc = "record"
    /\ record(main_event.val.update)
    /\ lock_writer' = FALSE
    /\ main_pc' = "recv"
    /\ main_event' = None
    /\ UNCHANGED <<bind_ok, emitted, event_chan, lock_readers, tick_pc, tick_asset,
                   bus_log, server_rx, client_log, clients>>

\* interval.tick().await, the clock read and the Settlement sent
tick_settlement(now) ==
    /\ tick_pc = "tick"
    /\ Len(SelectSeq(bus_log, LAMBDA e : e.type = "settlement")) < MaxTicks
    /\ timer_tick(now)
    /\ broadcast_send_ready(Len(bus_log), bus_receivers)
    /\ bus_log' = Append(bus_log, Settlement(calculate_settlement_info(now)))
    /\ tick_pc' = "read"
    /\ UNCHANGED <<bind_ok, emitted, event_chan, main_pc, main_event, lock_writer,
                   lock_readers, tick_asset, server_rx, client_log, clients>>

\* the calculator read without a guard
tick_readMutant ==
    /\ tick_pc = "read"
    /\ tick_pc' = "preview"
    /\ tick_asset' = 1
    /\ UNCHANGED <<bind_ok, emitted, event_chan, main_pc, main_event, lock_writer,
                   lock_readers, bus_log, server_rx, client_log, clients>>

\* timer_twap.read().await: granted when no write guard is held or waited for
tick_read ==
    /\ tick_pc = "read"
    /\ ~lock_writer /\ main_pc # "write"
    /\ lock_readers' = lock_readers + 1
    /\ tick_pc' = "preview"
    /\ tick_asset' = 1
    /\ UNCHANGED <<bind_ok, emitted, event_chan, main_pc, main_event, lock_writer,
                   bus_log, server_rx, client_log, clients>>

\* the read guard kept over the wait for the next tick
tick_previewMutant ==
    /\ tick_pc = "preview"
    /\ LET preview == calculate_preview(asset_symbol(Assets[tick_asset]), now_secs,
                                        settlement_info.val.in_twap_window)
       IN  IF preview.some
           THEN bus_log' = Append(bus_log, TwapPreview(preview.val))
           ELSE UNCHANGED bus_log
    /\ IF tick_asset < Len(Assets)
       THEN tick_asset' = tick_asset + 1 /\ UNCHANGED tick_pc
       ELSE tick_asset' = 1 /\ tick_pc' = "tick"
    /\ UNCHANGED <<bind_ok, emitted, event_chan, main_pc, main_event, lock_writer,
                   lock_readers, server_rx, client_log, clients>>

\* one turn of `for asset in ASSETS`; the read guard is dropped after the last
tick_preview ==
    /\ tick_pc = "preview"
    /\ LET preview == calculate_preview(asset_symbol(Assets[tick_asset]), now_secs,
                                        settlement_info.val.in_twap_window)
       IN  IF preview.some
           THEN /\ broadcast_send_ready(Len(bus_log), bus_receivers)
                /\ bus_log' = Append(bus_log, TwapPreview(preview.val))
           ELSE UNCHANGED bus_log
    /\ IF tick_asset < Len(Assets)
       THEN /\ tick_asset' = tick_asset + 1
            /\ UNCHANGED <<tick_pc, lock_readers>>
       ELSE /\ tick_asset' = 1
            /\ tick_pc' = "tick"
            /\ lock_readers' = lock_readers - 1
    /\ UNCHANGED <<bind_ok, emitted, event_chan, main_pc, main_event, lock_writer,
                   server_rx, client_log, clients>>

\* one turn of the forwarder task's loop; a message keeps the position its
\* event has in bus_log beside the text
forward ==
    /\ bind_ok
    /\ LET r == broadcast_recv(bus_log, server_rx)
       IN  /\ r.kind # "pending"
           /\ server_rx' = r.next
           /\ IF r.kind = "ok"
              THEN /\ broadcast_send_ready(Len(client_log), client_receivers)
                   /\ client_log' = Append(client_log,
                          [pos |-> server_rx + 1, json |-> to_string(r.value)])
              ELSE UNCHANGED client_log
    /\ UNCHANGED <<bind_ok, emitted, event_chan, main_pc, main_event, lock_writer,
                   lock_readers, tick_pc, tick_asset, bus_log, clients>>

\* listener.accept().await and client_tx.subscribe()
accept(c) ==
    /\ bind_ok
    /\ clients[c].state = "none"
    /\ \A d \in 1..(c - 1) : clients[d].state # "none"
    /\ clients' = [clients EXCEPT ![c] =
           [state |-> "handshake", next |-> Len(client_log), pending |-> None,
            received |-> <<>>, lagged |-> FALSE, sub_at |-> Len(bus_log)]]
    /\ UNCHANGED <<bind_ok, emitted, event_chan, main_pc, main_event, lock_writer,
                   lock_readers, tick_pc, tick_asset, bus_log, server_rx, client_log>>

\* accept_async(stream).await?
accept_async(c, ok) ==
    /\ clients[c].state = "handshake"
    /\ clients' = [clients EXCEPT ![c] = IF ok THEN [@ EXCEPT !.state = "open"] ELSE ClosedClient]
    /\ UNCHANGED <<bind_ok, emitted, event_chan, main_pc, main_event, lock_writer,
                   lock_readers, tick_pc, tick_asset, bus_log, server_rx, client_log>>

\* the connection left on a lag
on_laggedMutant(client) == ClosedClient
\* Err(RecvError::Lagged(_)) => continue
on_lagged(client) == client

\* the data_rx.recv() branch of select!, up to ws_sender.send
client_recv(c) ==
    /\ clients[c].state = "open"
    /\ LET r == broadcast_recv(client_log, clients[c].next)
       IN  /\ r.kind # "pending"
           /\ clients' = [clients EXCEPT ![c] =
                  IF r.kind = "ok"
                  THEN [@ EXCEPT !.state = "sending", !.next = r.next,
                                 !.pending = Some(r.value)]
                  ELSE on_lagged([@ EXCEPT !.next = r.next, !.lagged = TRUE])]
    /\ UNCHANGED <<bind_ok, emitted, event_chan, main_pc, main_event, lock_writer,
                   lock_readers, tick_pc, tick_asset, bus_log, server_rx, client_log>>

\* ws_sender.send(Message::Text(json)).await returns
ws_send(c, ok) ==
    /\ clients[c].state = "sending"
    /\ clients' = [clients EXCEPT ![c] =
           IF ok
           THEN [@ EXCEPT !.state = "open", !.pending = None,
                          !.received = Append(@, clients[c].pending.val)]
           ELSE ClosedClient]
    /\ UNCHANGED <<bind_ok, emitted, event_chan, main_pc, main_event, lock_writer,
                   lock_readers, tick_pc, tick_asset, bus_log, server_rx, client_log>>

\* the ws_receiver.next() branch of select!
WsItems == {"message", "close", "end", "error"}
ws_receiver_next(c, msg) ==
    /\ clients[c].state = "open"
    /\ clients' = [clients EXCEPT ![c] = IF msg = "message" THEN @ ELSE ClosedClient]
    /\ UNCHANGED <<bind_ok, emitted, event_chan, main_pc, main_event, lock_writer,
                   lock_readers, tick_pc, tick_asset, bus_log, server_rx, client_log>>

\* the events of the Pyth client, the prices one second before the epoch
BusUpdate == PriceUpdate("SOL", 1, ROUND_EPOCH_SECS - 1)
BusUpdateBtc == PriceUpdate("BTC", 2, ROUND_EPOCH_SECS - 1)
IngestEvents ==
    {Connected, Price(BusUpdate), Price(BusUpdateBtc), Error("SSE stream error"), Disconnected}
\* the clock read in the window before the epoch's boundary, and on the boundary
BusInstants == {ROUND_EPOCH_SECS - 1, ROUND_EPOCH_SECS}

\* The Pyth client, the event loop and the timer task, the server's tasks idle.
OrchInit ==
    /\ BusIdle
    /\ with_window(DEFAULT_TWAP_WINDOW_SECS)
    /\ PythIdle
    /\ ClockIdle

OrchNext ==
    \/ \E e \in IngestEvents : mpsc_send(e) /\ UNCHANGED <<twap_vars, pyth_vars, clock_vars>>
    \/ main_recv /\ UNCHANGED <<twap_vars, pyth_vars, clock_vars>>
    \/ main_write /\ UNCHANGED <<twap_vars, pyth_vars, clock_vars>>
    \/ main_record /\ UNCHANGED <<pyth_vars, clock_vars>>
    \/ \E now \in BusInstants : tick_settlement(now) /\ UNCHANGED <<twap_vars, pyth_vars>>
    \/ tick_read /\ UNCHANGED <<twap_vars, pyth_vars, clock_vars>>
    \/ tick_preview /\ UNCHANGED <<twap_vars, pyth_vars, clock_vars>>

SpecOrch == OrchInit /\ [][OrchNext]_vars

\* The same three tasks on a stream of prices: the events that take the
\* write guard.
FairEvents == {Price(BusUpdate), Price(BusUpdateBtc)}

FairOrchNext ==
    \/ \E e \in FairEvents : mpsc_send(e) /\ UNCHANGED <<twap_vars, pyth_vars, clock_vars>>
    \/ main_recv /\ UNCHANGED <<twap_vars, pyth_vars, clock_vars>>
    \/ main_write /\ UNCHANGED <<twap_vars, pyth_vars, clock_vars>>
    \/ main_record /\ UNCHANGED <<pyth_vars, clock_vars>>
    \/ \E now \in BusInstants : tick_settlement(now) /\ UNCHANGED <<twap_vars, pyth_vars>>
    \/ tick_read /\ UNCHANGED <<twap_vars, pyth_vars, clock_vars>>
    \/ tick_preview /\ UNCHANGED <<twap_vars, pyth_vars, clock_vars>>

\* the event loop and the timer task are polled when they can go on; the
\* stream and the clock owe nothing
FairSpecOrch ==
    /\ OrchInit
    /\ [][FairOrchNext]_vars
    /\ WF_vars(main_recv /\ UNCHANGED <<twap_vars, pyth_vars, clock_vars>>)
    /\ WF_vars(main_write /\ UNCHANGED <<twap_vars, pyth_vars, clock_vars>>)
    /\ WF_vars(main_record /\ UNCHANGED <<pyth_vars, clock_vars>>)
    /\ WF_vars(tick_read /\ UNCHANGED <<twap_vars, pyth_vars, clock_vars>>)
    /\ WF_vars(tick_preview /\ UNCHANGED <<twap_vars, pyth_vars, clock_vars>>)

\* The server and its connections, with the two publishers: the event loop
\* passing on events that are no prices, and the timer task up to the
\* Settlement it sends (with no price recorded it sends no preview).
FanoutEvents == {Connected}
FanoutInstants == {ROUND_EPOCH_SECS}

FanoutInit ==
    /\ bind_ok \in BOOLEAN
    /\ emitted = <<>> /\ event_chan = <<>>
    /\ main_pc = "recv" /\ main_event = None
    /\ lock_writer = FALSE /\ lock_readers = 0
    /\ tick_pc = "tick" /\ tick_asset = 1
    /\ bus_log = <<>> /\ server_rx = 0 /\ client_log = <<>>
    /\ clients = [c \in DOMAIN Clients |-> NoClient]
    /\ with_window(DEFAULT_TWAP_WINDOW_SECS)
    /\ PythIdle
    /\ ClockIdle

FanoutNext ==
    \/ \E e \in FanoutEvents : mpsc_send(e) /\ UNCHANGED <<twap_vars, pyth_vars, clock_vars>>
    \/ main_recv /\ UNCHANGED <<twap_vars, pyth_vars, clock_vars>>
    \/ \E now \in FanoutInstants : tick_settlement(now) /\ UNCHANGED <<twap_vars, pyth_vars>>
    \/ forward /\ UNCHANGED <<twap_vars, pyth_vars, clock_vars>>
    \/ \E c \in DOMAIN Clients : accept(c) /\ UNCHANGED <<twap_vars, pyth_vars, clock_vars>>
    \/ \E c \in DOMAIN Clients, ok \in BOOLEAN :
          accept_async(c, ok) /\ UNCHANGED <<twap_vars, pyth_vars, clock_vars>>
    \/ \E c \in DOMAIN Clients : client_recv(c) /\ UNCHANGED <<twap_vars, pyth_vars, clock_vars>>
    \/ \E c \in DOMAIN Clients, ok \in BOOLEAN :
          ws_send(c, ok) /\ UNCHANGED <<twap_vars, pyth_vars, clock_vars>>
    \/ \E c \in DOMAIN Clients, msg \in WsItems :
          ws_receiver_next(c, msg) /\ UNCHANGED <<twap_vars, pyth_vars, clock_vars>>

SpecFanout == FanoutInit /\ [][FanoutNext]_vars

----------------------------------------------------------------------------
(* Properties of the TWAP calculator. *)

\* the samples of a sequence with a timestamp in [lo, hi], by position
InRange(seq, lo, hi) ==
    {i \in DOMAIN seq : lo <= seq[i].timestamp /\ seq[i].timestamp <= hi}

RECURSIVE SumAt(_, _)
SumAt(seq, idx) ==
    IF idx = {} THEN 0
    ELSE LET i == CHOOSE j \in idx : TRUE
         IN  seq[i].price + SumAt(seq, idx \ {i})

\* seq without its samples older than cutoff, the others in their order
RECURSIVE NotOlder(_, _)
NotOlder(seq, cutoff) ==
    IF seq = <<>> THEN <<>>
    ELSE IF seq[1].timestamp < cutoff THEN NotOlder(Tail(seq), cutoff)
         ELSE <<seq[1]>> \o NotOlder(Tail(seq), cutoff)

StoredSamples(symbol) == IF symbol \in DOMAIN samples THEN samples[symbol] ELSE <<>>

\* C1: record(update) returns true and appends exactly the sample
\* (update.price, update.publish_time) at the end of the symbol's sequence,
\* making publish_time its last accepted timestamp, if and only if the symbol
\* has no last accepted timestamp or publish_time - last accepted >=
\* sample_interval_secs; otherwise it returns false and changes neither the
\* samples nor the last accepted timestamps of any symbol.
C1_RecordDedup ==
    [][\A u \in Updates : record(u) =>
        LET s == u.symbol
            accepts == \/ s \notin DOMAIN last_sample_time
                       \/ u.publish_time - last_sample_time[s] >= sample_interval_secs
        IN  IF accepts
            THEN /\ twap_ret' = TRUE
                 /\ DOMAIN samples' = DOMAIN samples \cup {s}
                 /\ samples'[s] = Append(StoredSamples(s),
                                         [price |-> u.price, timestamp |-> u.publish_time])
                 /\ \A o \in DOMAIN samples \ {s} : samples'[o] = samples[o]
                 /\ DOMAIN last_sample_time' = DOMAIN last_sample_time \cup {s}
                 /\ last_sample_time'[s] = u.publish_time
                 /\ \A o \in DOMAIN last_sample_time \ {s} :
                        last_sample_time'[o] = last_sample_time[o]
            ELSE /\ twap_ret' = FALSE
                 /\ samples' = samples
                 /\ last_sample_time' = last_sample_time]_vars

\* a record was rejected on the last accepted timestamp alone, the symbol's
\* samples having been pruned away, while the other symbol holds samples
C1_Witness ==
    /\ twap_op = "record" /\ twap_ret = FALSE
    /\ "SOL" \in DOMAIN samples /\ samples["SOL"] = <<>>
    /\ "BTC" \in DOMAIN samples /\ Len(samples["BTC"]) >= 2

\* C2: when calculate(symbol, window_end) returns a result, its sample_count
\* is the number of stored samples of the symbol with window_end - window_secs
\* <= timestamp <= window_end, its twap_price is the sum of those samples'
\* prices divided by that count, and its window is
\* [window_end - window_secs, window_end].
C2_CalculateMean ==
    \A s \in TwapSymbols, e \in Ends :
        LET r == calculate(s, e)
            idx == InRange(StoredSamples(s), e - window_secs, e)
        IN  r.some =>
                /\ r.val.sample_count = Cardinality(idx)
                /\ Cardinality(idx) > 0
                /\ r.val.twap_price[1] * Cardinality(idx)
                       = SumAt(samples[s], idx) * r.val.twap_price[2]
                /\ r.val.twap_price[2] > 0
                /\ r.val.window_start = e - window_secs
                /\ r.val.window_end = e

\* a result over two of three stored samples whose mean is no integer
C2_Witness ==
    \E s \in TwapSymbols, e \in Ends :
        /\ calculate(s, e).some
        /\ calculate(s, e).val.sample_count = 2
        /\ calculate(s, e).val.twap_price[2] = 2
        /\ Len(samples[s]) = 3

\* C3: calculate_preview never returns absence, and for a symbol with no
\* samples in the store at all (never recorded, or cleared) it returns the
\* zero-valued preview carrying the flag.
C3_PreviewNeverAbsent ==
    \A s \in TwapSymbols, e \in Ends, f \in BOOLEAN :
        /\ calculate_preview(s, e, f).some
        /\ StoredSamples(s) = <<>> =>
               calculate_preview(s, e, f) =
                   Some([symbol |-> s, twap_price |-> Zero, sample_count |-> 0,
                         coverage |-> Zero, in_settlement_window |-> f])

\* C4: calculate_validated fails with NoSamples exactly when calculate is
\* absent, fails with InsufficientCoverage{actual = count / expected_samples,
\* required = 0.90} exactly when calculate returns a result with that ratio
\* strictly below 0.90, and otherwise returns calculate's result; it never
\* changes the store.
C4_ValidatedCoverage ==
    [][\A e \in CovEnds : calculate_validated_call(CovSymbol, e) =>
        LET r == calculate(CovSymbol, e)
            n == Cardinality(InRange(StoredSamples(CovSymbol), e - window_secs, e))
        IN  /\ samples' = samples
            /\ last_sample_time' = last_sample_time
            /\ (twap_ret' = Err(NoSamples)) <=> ~r.some
            /\ (r.some /\ n * 10 < 9 * expected_samples) =>
                   twap_ret' = Err([kind |-> "InsufficientCoverage",
                                    actual |-> Frac(n, expected_samples),
                                    required |-> <<9, 10>>])
            /\ (r.some /\ n * 10 >= 9 * expected_samples) => twap_ret' = Ok(r.val)
            /\ (~twap_ret'.ok /\ twap_ret'.err.kind = "InsufficientCoverage") =>
                   (r.some /\ n * 10 < 9 * expected_samples)]_vars

\* calculate_validated succeeded on a coverage of exactly 0.90
C4_Witness ==
    /\ twap_op = "calculate_validated"
    /\ twap_ret.ok
    /\ twap_ret.val.coverage = <<9, 10>>

\* C5: prune(cutoff) keeps every symbol's entry, removes exactly the samples
\* with timestamp < cutoff and keeps the others in their order; pruning the
\* result again with the same cutoff changes nothing, and an empty store
\* stays empty.
C5_PruneExact ==
    [][\A c \in Cutoffs : prune(c) =>
        /\ DOMAIN samples' = DOMAIN samples
        /\ \A s \in DOMAIN samples : samples'[s] = NotOlder(samples[s], c)
        /\ prune_samples(samples', c) = samples'
        /\ (samples = EmptyMap => samples' = EmptyMap)]_vars

\* a prune emptied one symbol's sequence and left another's later samples
C5_Witness ==
    /\ twap_op = "prune"
    /\ "BTC" \in DOMAIN samples /\ samples["BTC"] = <<>>
    /\ "SOL" \in DOMAIN samples /\ Len(samples["SOL"]) >= 2
    /\ samples["SOL"][1].timestamp > 0

\* C18: after clear(symbol) the symbol has no stored samples and no last
\* accepted timestamp, so that the next record for it is accepted whatever its
\* timestamp and leaves sample_count(symbol) = 1; the samples and last accepted
\* timestamps of every other symbol are unchanged.
C18_ClearForgetsSymbol ==
    [][/\ \A s \in TwapSymbols : clear(s) =>
              /\ s \notin DOMAIN samples'
              /\ s \notin DOMAIN last_sample_time'
              /\ sample_count(s)' = 0
              /\ \A u \in Updates : u.symbol = s => ~record_rejects(u)'
              /\ DOMAIN samples' = DOMAIN samples \ {s}
              /\ \A o \in DOMAIN samples' : samples'[o] = samples[o]
              /\ DOMAIN last_sample_time' = DOMAIN last_sample_time \ {s}
              /\ \A o \in DOMAIN last_sample_time' :
                     last_sample_time'[o] = last_sample_time[o]
       /\ \A u \in Updates :
              (record(u) /\ u.symbol \notin DOMAIN samples
                         /\ u.symbol \notin DOMAIN last_sample_time) =>
                  /\ twap_ret' = TRUE
                  /\ sample_count(u.symbol)' = 1
                  /\ samples'[u.symbol] =
                         <<[price |-> u.price, timestamp |-> u.publish_time]>>]_vars

\* a symbol was cleared while the other holds samples and a last accepted time
C18_Witness ==
    /\ twap_op = "clear"
    /\ "SOL" \notin DOMAIN samples
    /\ "SOL" \notin DOMAIN last_sample_time
    /\ "BTC" \in DOMAIN samples /\ Len(samples["BTC"]) >= 2
    /\ "BTC" \in DOMAIN last_sample_time /\ last_sample_time["BTC"] = MaxTime

\* C19: calculate(symbol, window_end) is absent if and only if the symbol has
\* no stored sample with window_end - window_secs <= timestamp <= window_end
\* (none at all, or none in the window); otherwise it is a result with
\* sample_count >= 1.
C19_AbsentIffNoSampleInWindow ==
    \A s \in TwapSymbols, e \in Ends :
        LET r == calculate(s, e)
            idx == InRange(StoredSamples(s), e - window_secs, e)
        IN  /\ ~r.some <=> idx = {}
            /\ r.some => r.val.sample_count >= 1

\* a symbol holds samples, calculate is absent for a window past them and a
\* result of one sample for the window that starts at its last sample
C19_Witness ==
    \E s \in TwapSymbols :
        /\ Len(StoredSamples(s)) >= 2
        /\ ~calculate(s, MaxTime + SmallWindow + 1).some
        /\ calculate(s, MaxTime + SmallWindow).some
        /\ calculate(s, MaxTime + SmallWindow).val.sample_count = 1

\* C20: the coverage of the preview calculate_preview returns is
\* min(1, observed / expected_samples), in [0, 1], also when the window holds
\* more samples than expected_samples.
C20_PreviewCoverageClamped ==
    \A s \in TwapSymbols, e \in Ends, f \in BOOLEAN :
        LET p == calculate_preview(s, e, f)
            n == Cardinality(InRange(StoredSamples(s), e - window_secs, e))
        IN  p.some =>
                /\ p.val.sample_count = n
                /\ p.val.coverage[2] > 0
                /\ p.val.coverage[1] * expected_samples
                       = Min(n, expected_samples) * p.val.coverage[2]
                /\ 0 <= p.val.coverage[1]
                /\ p.val.coverage[1] <= p.val.coverage[2]

\* a preview over window_secs + 1 samples, one second apart, has coverage 1
C20_Witness ==
    \E s \in TwapSymbols, e \in Ends :
        /\ calculate_preview(s, e, TRUE).some
        /\ calculate_preview(s, e, TRUE).val.sample_count = window_secs + 1
        /\ window_secs + 1 > expected_samples
        /\ calculate_preview(s, e, TRUE).val.coverage = One
        /\ calculate(s, e).val.coverage = Frac(window_secs + 1, expected_samples)

\* C24: after any sequence of record, prune and clear, the stored samples of
\* every symbol have strictly increasing timestamps, consecutive ones at
\* least sample_interval_secs apart; a symbol has a sample sequence exactly
\* when it has a last accepted timestamp; and a non-empty sequence ends with
\* the sample of the last accepted timestamp.
C24_StoreWellFormed ==
    /\ DOMAIN samples = DOMAIN last_sample_time
    /\ \A s \in DOMAIN samples :
          LET seq == samples[s]
          IN  /\ \A i \in 1..(Len(seq) - 1) :
                    /\ seq[i].timestamp < seq[i + 1].timestamp
                    /\ seq[i + 1].timestamp - seq[i].timestamp >= sample_interval_secs
              /\ seq # <<>> => last_sample_time[s] = seq[Len(seq)].timestamp

\* a symbol recorded twice, pruned to its last sample, beside a symbol that
\* was recorded after a clear or never before
C24_Witness ==
    /\ twap_op = "prune"
    /\ \E s, o \in TwapSymbols :
          /\ s # o
          /\ s \in DOMAIN samples
          /\ Len(samples[s]) = 1
          /\ samples[s][1].timestamp = MaxTime
          /\ o \in DOMAIN samples
          /\ Len(samples[o]) = 2

\* the preview of no sample
ZeroPreview(symbol, f) ==
    [symbol |-> symbol, twap_price |-> Zero, sample_count |-> 0,
     coverage |-> Zero, in_settlement_window |-> f]

\* C25: prune changes no last accepted timestamp and removes no symbol's
\* entry: once prune(cutoff) has removed all samples of a symbol, a record
\* for it with publish_time < last accepted + sample_interval_secs is still
\* rejected, and calculate_preview for it is a zero-valued preview, not
\* absence.
C25_PruneKeepsEntries ==
    /\ [][twap_op' = "prune" =>
            /\ last_sample_time' = last_sample_time
            /\ DOMAIN samples' = DOMAIN samples
            /\ \A s \in DOMAIN samples :
                  samples'[s] = <<>> =>
                      /\ \A u \in Updates :
                            (/\ u.symbol = s
                             /\ u.publish_time < last_sample_time[s] + sample_interval_secs)
                                => record_rejects(u)'
                      /\ \A e \in Ends, f \in BOOLEAN :
                            calculate_preview(s, e, f)' = Some(ZeroPreview(s, f))]_vars
    /\ [][\A u \in Updates :
            (/\ u.symbol \in DOMAIN samples
             /\ samples[u.symbol] = <<>>
             /\ u.publish_time < last_sample_time[u.symbol] + sample_interval_secs
             /\ record(u))
                => (twap_ret' = FALSE /\ twap_store' = twap_store)]_vars

\* prune has removed every sample of a symbol whose last accepted timestamp
\* is the latest one
C25_Witness ==
    /\ twap_op = "prune"
    /\ "SOL" \in DOMAIN samples
    /\ samples["SOL"] = <<>>
    /\ last_sample_time["SOL"] = MaxTime

----------------------------------------------------------------------------
(* Properties of the Pyth client. *)

\* the cycle so far, read by an automaton: "bad" once a step is refused
RECURSIVE Run(_, _, _)
Run(Step(_, _), state, events) ==
    IF events = <<>> THEN state
    ELSE Run(Step, Step(state, events[1].type), Tail(events))

\* Connected, zero or more Price, optionally one Error, then Disconnected
PatternStep(state, type) ==
    CASE state = "start" /\ type = "connected" -> "connected"
      [] state = "connected" /\ type = "price" -> "connected"
      [] state = "connected" /\ type = "error" -> "error"
      [] state \in {"connected", "error"} /\ type = "disconnected" -> "done"
      [] OTHER -> "bad"

\* the same, or Error then Disconnected with no Connected
AmendedStep(state, type) ==
    CASE state = "start" /\ type = "error" -> "error"
      [] OTHER -> PatternStep(state, type)

HasType(events, type) == \E i \in DOMAIN events : events[i].type = type
Complete(events) == events # <<>> /\ events[Len(events)] = Disconnected

\* C6 as stated: from each Disconnected to the next, the events sent are
\* Connected, zero or more Price, optionally one Error, then Disconnected.
C6_CyclePattern == Run(PatternStep, "start", cycle) # "bad"

\* C6 amended: from each Disconnected to the next, the events sent are
\* Connected, zero or more Price, optionally one Error, then Disconnected, or,
\* only when the stream URL does not parse, Error then Disconnected with no
\* Connected; every Price follows a Connected of its cycle.
C6_CyclePatternAmended ==
    /\ Run(AmendedStep, "start", cycle) # "bad"
    /\ (cycle # <<>> /\ cycle[1].type = "error") => ~hermes_url_ok
    /\ hermes_url_ok => Run(PatternStep, "start", cycle) # "bad"
    /\ HasType(cycle, "price") => cycle[1] = Connected

\* a cycle of Connected, Price, Error, Disconnected is complete
C6_Witness ==
    /\ Len(cycle) = 4
    /\ cycle[1] = Connected /\ cycle[2].type = "price"
    /\ cycle[3].type = "error" /\ cycle[4] = Disconnected

\* C7: run never terminates and never stops retrying: it is always at one of
\* the places of its loop and can always take a step; whenever
\* connect_and_stream has returned, run sends Disconnected, sleeps 5 seconds
\* whatever the number of failures so far, and starts the next attempt; and at
\* most one stream is alive, none outside connect_and_stream.
C7_RetryForever ==
    /\ [](pyth_pc \in {"connect", "streaming", "returned", "disconnect", "sleep"})
    /\ [](ENABLED PythNext)
    /\ [](streams_open <= 1 /\ (streams_open = 1 <=> pyth_pc = "streaming"))
    /\ [](pyth_pc = "sleep" => sleep_secs = 5 /\ Complete(cycle))
    /\ [][pyth_pc = "returned" => pyth_pc' = "disconnect"]_vars
    /\ [][pyth_pc = "disconnect" => pyth_pc' = "sleep"]_vars
    /\ [][pyth_pc = "sleep" => pyth_pc' = "connect"]_vars
    /\ (pyth_pc = "returned" ~> (pyth_pc = "sleep" /\ Complete(cycle)))
    /\ (pyth_pc = "sleep" ~> pyth_pc = "connect")

\* the next attempt starts after three failures in a row and a sleep of 5 seconds
C7_Witness ==
    /\ pyth_pc = "connect"
    /\ failures >= 3
    /\ sleep_secs = 5

StreamError == Err("SSE stream error")

\* the one Error of the cycle is its last event but one, before Disconnected
ErrorThenDisconnected ==
    \A i \in DOMAIN cycle :
        cycle[i].type = "error" =>
            /\ \A j \in DOMAIN cycle : cycle[j].type = "error" => j = i
            /\ i < Len(cycle) => (i + 1 = Len(cycle) /\ cycle[i + 1] = Disconnected)

\* C8 as stated: an error of the stream gives one Error, then Disconnected with
\* nothing between; a graceful end gives Disconnected and no Error; an Error
\* is sent in no other situation.
C8_ErrorOnlyOnStreamError ==
    /\ ErrorThenDisconnected
    /\ (pyth_pc \in {"disconnect", "sleep"} /\ stream_result = StreamError) =>
           HasType(cycle, "error")
    /\ (pyth_pc \in {"disconnect", "sleep"} /\ stream_result.ok) =>
           ~HasType(cycle, "error")
    /\ (pyth_pc \in {"disconnect", "sleep"} /\ HasType(cycle, "error")) =>
           stream_result = StreamError

\* C8 amended: an Error is sent exactly when connect_and_stream returned an
\* error, which is an error of the stream or a stream URL that does not parse
\* (then before any Connected); it carries that error's message, is the only
\* Error of its cycle and Disconnected follows it with nothing between; a
\* graceful end gives Disconnected and no Error.
C8_ErrorOnlyOnErrAmended ==
    /\ ErrorThenDisconnected
    /\ pyth_pc \in {"disconnect", "sleep"} =>
           /\ HasType(cycle, "error") <=> ~stream_result.ok
           /\ ~stream_result.ok =>
                  /\ \E i \in DOMAIN cycle : cycle[i] = Error(stream_result.err)
                  /\ stream_result.err = "invalid url" <=> ~hermes_url_ok
                  /\ stream_result.err = "SSE stream error" <=> HasType(cycle, "connected")
    /\ pyth_pc \in {"connect", "streaming", "returned"} =>
           (HasType(cycle, "error") => Complete(cycle))

\* an error of the stream after a Price: Error, then Disconnected
C8_Witness ==
    /\ pyth_pc = "sleep"
    /\ stream_result = StreamError
    /\ Len(cycle) = 4
    /\ cycle[2].type = "price"
    /\ cycle[3] = Error("SSE stream error") /\ cycle[4] = Disconnected

\* what the claim expects of a record in canonical form with integer mantissas
ExpectedPrice(r) ==
    [type |-> "price",
     update |-> [symbol |-> IF r.id = <<"0", "x", "e", "f">> THEN "SOL" ELSE "BTC",
                 price |-> [raw |-> IF r = SolRecord THEN 42 ELSE -7, expo |-> -8],
                 confidence |-> [raw |-> IF r = SolRecord THEN 1 ELSE 3, expo |-> -8],
                 publish_time |-> 1,
                 feed_id |-> r.id]]

RECURSIVE ExpectedPrices(_)
ExpectedPrices(parsed) ==
    IF parsed = <<>> THEN <<>>
    ELSE (IF parsed[1] \in CanonicalRecords THEN <<ExpectedPrice(parsed[1])>> ELSE <<>>)
             \o ExpectedPrices(Tail(parsed))

\* the messages whose records are in canonical form or do not decode
IsDecodeItem(item) ==
    /\ item.kind = "event" /\ item.event_type = "message"
    /\ \A i \in DOMAIN item.parsed :
           item.parsed[i] \in CanonicalRecords \cup UndecodableRecords

\* C9: a message whose JSON does not parse, and a record with a mantissa that
\* is no integer or with the id of no tracked feed, sends no event and leaves
\* the client streaming on the same stream; the valid records of that message
\* and of later ones are sent as Price events, in their order.
C9_DecodeErrorsSkipped ==
    [][(pyth_pc = "streaming" /\ last_item'.some /\ IsDecodeItem(last_item'.val)) =>
        /\ pyth_pc' = "streaming"
        /\ streams_open' = streams_open
        /\ stream_result' = stream_result
        /\ cycle' = cycle \o (IF last_item'.val.json_ok
                               THEN ExpectedPrices(last_item'.val.parsed)
                               ELSE <<>>)]_vars

\* a Price was sent for the valid record that followed one that does not decode
C9_Witness ==
    /\ pyth_pc = "streaming"
    /\ last_item = Some(Message(<<BadPriceRecord, BtcRecord>>))
    /\ cycle = <<Connected, ExpectedPrice(BtcRecord)>>

\* the hex digits of a feed id: lower case, without the prefix in either case
HexDigitsOf(id) ==
    LET low == to_lowercase(id)
    IN  IF starts_with(low, <<"0", "x">>) THEN SubSeq(low, 3, Len(low)) ELSE low

\* the tracked assets a feed id names up to letter case and prefix
TrackedFeed(id) ==
    {i \in DOMAIN Assets : HexDigitsOf(feed_id(Assets[i])) = HexDigitsOf(id)}

NormalizedPrice(r) ==
    LET asset == Assets[CHOOSE i \in TrackedFeed(r.id) : TRUE]
    IN  [type |-> "price",
         update |-> [symbol |-> asset_symbol(asset),
                     price |-> [raw |-> parse_i64(r.price.price).val,
                                expo |-> r.price.expo],
                     confidence |-> [raw |-> parse_i64(r.price.conf).val,
                                     expo |-> r.price.expo],
                     publish_time |-> r.price.publish_time,
                     feed_id |-> <<"0", "x">> \o HexDigitsOf(r.id)]]

RECURSIVE NormalizedPrices(_)
NormalizedPrices(parsed) ==
    IF parsed = <<>> THEN <<>>
    ELSE (IF TrackedFeed(parsed[1].id) # {} THEN <<NormalizedPrice(parsed[1])>> ELSE <<>>)
             \o NormalizedPrices(Tail(parsed))

\* the messages whose records have integer mantissas
IsFeedIdItem(item) ==
    /\ item.kind = "event" /\ item.event_type = "message" /\ item.json_ok
    /\ \A i \in DOMAIN item.parsed :
           item.parsed[i] \in CanonicalRecords \cup OtherFormRecords \cup {UnknownRecord}

\* C23: a record whose feed id equals a tracked asset's id up to letter case
\* and up to the presence of the hex prefix (upper-case digits, no "0x", an
\* upper-case "0X") is sent as a Price event with the asset's symbol and the
\* id in lower case with the "0x" prefix; only the ids of no tracked asset
\* are discarded.
C23_FeedIdNormalized ==
    [][(pyth_pc = "streaming" /\ last_item'.some /\ IsFeedIdItem(last_item'.val)) =>
        cycle' = cycle \o NormalizedPrices(last_item'.val.parsed)]_vars

----------------------------------------------------------------------------
(* Properties of the settlement clock. *)

\* C10: at an exact round boundary now = ROUND_EPOCH_SECS + k * D, k >= 0, D the
\* round duration, the settlement info has seconds_to_settlement = D and
\* in_twap_window = FALSE.
C10_BoundaryIsNextRound ==
    \A k \in 0..MaxRounds :
        (settlement_info.some /\ now_secs = ROUND_EPOCH_SECS + k * round_duration_secs) =>
            /\ settlement_info.val.seconds_to_settlement = round_duration_secs
            /\ settlement_info.val.in_twap_window = FALSE

\* the clock was read on the second boundary after the epoch, rounds of an hour
C10_Witness ==
    /\ settlement_info.some
    /\ round_duration_secs = 3600
    /\ now_secs = ROUND_EPOCH_SECS + 2 * 3600
    /\ settlement_info.val.seconds_to_settlement = 3600

\* C11: for every now, before, at or after ROUND_EPOCH_SECS, and every round
\* duration D > 0, next_settlement is the smallest ROUND_EPOCH_SECS + n * D
\* (n an integer) strictly greater than now, so that
\* 0 < seconds_to_settlement <= D, and next_settlement does not decrease when
\* now increases.
C11_NextSettlementIsLeastBoundaryAfterNow ==
    /\ [](settlement_info.some =>
            LET D == round_duration_secs
                info == settlement_info.val
            IN  /\ D > 0
                /\ (info.next_settlement - ROUND_EPOCH_SECS) % D = 0
                /\ info.next_settlement > now_secs
                /\ info.next_settlement - D <= now_secs
                /\ info.seconds_to_settlement = info.next_settlement - now_secs
                /\ 0 < info.seconds_to_settlement
                /\ info.seconds_to_settlement <= D)
    /\ [][(settlement_info.some /\ now_secs' >= now_secs) =>
            settlement_info'.val.next_settlement
                >= settlement_info.val.next_settlement]_vars

\* the clock was read one second after the second boundary before the epoch,
\* rounds of an hour: the next boundary is the one an hour before the epoch
C11_Witness ==
    /\ settlement_info.some
    /\ round_duration_secs = 3600
    /\ now_secs = ROUND_EPOCH_SECS - 2 * 3600 + 1
    /\ settlement_info.val.next_settlement = ROUND_EPOCH_SECS - 3600
    /\ settlement_info.val.seconds_to_settlement = 3599

\* C27: for every now and round duration D > 0, with the window length
\* W > 0, the settlement info has in_twap_window exactly when
\* seconds_to_twap_window = 0, twap_window_start = next_settlement - min(W, D),
\* and seconds_to_twap_window + min(W, D) = seconds_to_settlement whenever
\* in_twap_window is false.
C27_WindowFieldsAgree ==
    settlement_info.some =>
        LET info == settlement_info.val
            D == round_duration_secs
            W == TWAP_WINDOW_SECS
            m == IF W < D THEN W ELSE D
        IN  (D > 0 /\ W > 0) =>
                /\ info.in_twap_window <=> info.seconds_to_twap_window = 0
                /\ info.twap_window_start = info.next_settlement - m
                /\ ~info.in_twap_window =>
                       info.seconds_to_twap_window + m = info.seconds_to_settlement

\* the instant the window of a round of one hour opens
C27_Witness ==
    /\ round_hours_env = Some(<<"1">>)
    /\ settlement_info.some
    /\ settlement_info.val.in_twap_window
    /\ settlement_info.val.seconds_to_twap_window = 0
    /\ now_secs = settlement_info.val.twap_window_start
    /\ settlement_info.val.seconds_to_settlement = TWAP_WINDOW_SECS

----------------------------------------------------------------------------
(* Properties of the event bus. *)

IsLive(c) == clients[c].state \in LiveStates
\* how far the receiver of a connection is behind the channel
Behind(c) == Len(client_log) - clients[c].next
\* the positions in bus_log of the events a connection has been sent
ReceivedAt(c) == [i \in DOMAIN clients[c].received |-> clients[c].received[i].pos]
IsIncreasing(seq) == \A i \in 1..(Len(seq) - 1) : seq[i] < seq[i + 1]
IsContiguous(seq) == \A i \in 1..(Len(seq) - 1) : seq[i + 1] = seq[i] + 1
TicksSent == Len(SelectSeq(bus_log, LAMBDA e : e.type = "settlement"))

\* C12: publishing on the bus always completes without waiting, for any
\* number of subscribers and however slowly a subscriber drains: the event
\* loop with an event to take, the timer task at its tick and the forwarder
\* with an event to pass on can always take their step.
C12_PublishNeverWaits ==
    /\ (main_pc = "recv" /\ event_chan # <<>>) => ENABLED main_recv
    /\ (tick_pc = "tick" /\ TicksSent < MaxTicks) =>
           \A now \in FanoutInstants : ENABLED tick_settlement(now)
    /\ (bind_ok /\ server_rx < Len(bus_log)) => ENABLED forward

\* both publishers have sent, and the forwarder has passed their events on,
\* while a connection stalled in a socket send was more than the capacity behind
C12_Witness ==
    \E c \in DOMAIN Clients :
        /\ clients[c].state = "sending"
        /\ Behind(c) > ChannelCapacity
        /\ \E i \in DOMAIN bus_log :
               /\ i > clients[c].pending.val.pos
               /\ bus_log[i].type = "settlement"
        /\ \E i \in DOMAIN bus_log :
               /\ i > clients[c].pending.val.pos
               /\ bus_log[i].type = "connected"

\* C13: a connection whose receiver is more than the capacity behind observes
\* a lag, skips the overwritten messages and goes on from the oldest message
\* retained, still open; a connection ends only when its transport reports
\* closure or an error (the handshake included) or a send to it fails.
C13_LagSkipsAndContinues ==
    [][\A c \in DOMAIN Clients :
        /\ client_recv(c) =>
              IF Behind(c) > ChannelCapacity
              THEN /\ clients'[c].state = "open"
                   /\ clients'[c].next = Len(client_log) - ChannelCapacity
                   /\ clients'[c].received = clients[c].received
              ELSE /\ clients'[c].state = "sending"
                   /\ clients'[c].pending = Some(client_log[clients[c].next + 1])
                   /\ clients'[c].next = clients[c].next + 1
        /\ (clients[c].state # "closed" /\ clients'[c].state = "closed") =>
              \/ accept_async(c, FALSE)
              \/ ws_send(c, FALSE)
              \/ \E msg \in WsItems \ {"message"} : ws_receiver_next(c, msg)]_vars

\* a connection that lagged is open and was sent a message after the gap
C13_Witness ==
    \E c \in DOMAIN Clients :
        /\ clients[c].state = "open"
        /\ clients[c].lagged
        /\ \E i \in 1..(Len(clients[c].received) - 1), j \in DOMAIN client_log :
               /\ ReceivedAt(c)[i] < client_log[j].pos
               /\ client_log[j].pos < ReceivedAt(c)[i + 1]

\* C14: a connection that keeps draining its receiver (it never lagged) is sent
\* every event published on the bus after it subscribed, with no gap, also
\* when another connection is slow or stalled.
C14_ResponsiveNoGap ==
    \A c \in DOMAIN Clients :
        (IsLive(c) /\ ~clients[c].lagged /\ clients[c].received # <<>>) =>
            /\ IsContiguous(ReceivedAt(c))
            /\ ReceivedAt(c)[1] <= clients[c].sub_at + 1

\* C15: the events a connection is sent are, in their order, events of the
\* bus at increasing positions of its one publish order, each the text of the
\* event published there: no event twice, no two events in another order than
\* any other connection's.
C15_SubsequenceOfPublishOrder ==
    \A c \in DOMAIN Clients :
        /\ IsIncreasing(ReceivedAt(c))
        /\ \A i \in DOMAIN clients[c].received :
              /\ ReceivedAt(c)[i] \in DOMAIN bus_log
              /\ clients[c].received[i].json = to_string(bus_log[ReceivedAt(c)[i]])

\* two connections were sent events of both publishers, one of them after a gap
C15_Witness ==
    /\ Len(clients[1].received) >= 2
    /\ Len(clients[2].received) >= 2
    /\ ReceivedAt(1) # ReceivedAt(2)
    /\ ~IsContiguous(ReceivedAt(1))
    /\ \E i \in DOMAIN clients[2].received : clients[2].received[i].json.type = "settlement"
    /\ \E i \in DOMAIN clients[2].received : clients[2].received[i].json.type = "connected"

----------------------------------------------------------------------------
(* Properties of the orchestrator. *)

IsIngestEvent(e) == e.type \in {"connected", "price", "error", "disconnected"}
IsTickEvent(e) == e.type \in {"settlement", "twap_preview"}

\* C16: every event the Pyth client emits is published on the bus exactly
\* once and in the order of emission, also when the channel to the event loop
\* is full: the events emitted are those published, in order, followed by
\* those still waiting in the channel.
C16_IngestLossless ==
    /\ emitted = SelectSeq(bus_log, IsIngestEvent) \o event_chan
    /\ Len(event_chan) <= ChannelCapacity

\* the channel is full after an event was taken from it and published, prices
\* among those waiting
C16_Witness ==
    /\ Len(event_chan) = ChannelCapacity
    /\ Len(SelectSeq(bus_log, IsIngestEvent)) >= 1
    /\ \E i \in DOMAIN event_chan : event_chan[i].type = "price"
    /\ \E i \in DOMAIN bus_log : bus_log[i].type = "price"

\* C17: on every tick, in every reachable state (also before a price was
\* recorded for some asset), one Settlement and one TwapPreview for each of
\* SOL, BTC and ETH are published.
C17_TickPublishesAllPreviews ==
    LET sent == SelectSeq(bus_log, IsTickEvent)
        n == Len(Assets) + 1
    IN  tick_pc = "tick" =>
            /\ Len(sent) = n * TicksSent
            /\ \A k \in 0..(TicksSent - 1) :
                  /\ sent[n * k + 1].type = "settlement"
                  /\ \A i \in DOMAIN Assets :
                        /\ sent[n * k + 1 + i].type = "twap_preview"
                        /\ sent[n * k + 1 + i].preview.symbol = asset_symbol(Assets[i])

\* C21: a record on the calculator never overlaps a calculate_preview or
\* sample_count read or another write: the write guard is never held together
\* with a read guard, the timer task reads under a read guard, and the store
\* changes only in a step of the holder of the write guard.
C21_RecordExclusive ==
    /\ [](/\ ~(lock_writer /\ lock_readers > 0)
          /\ tick_pc = "preview" => (lock_readers > 0 /\ ~lock_writer)
          /\ main_pc = "record" <=> lock_writer)
    /\ [][twap_store' # twap_store =>
            (lock_writer /\ main_pc = "record" /\ lock_readers = 0)]_vars

\* the event loop holds the write guard over a store with samples while the
\* timer task waits for its read guard
C21_Witness ==
    /\ lock_writer
    /\ main_pc = "record"
    /\ tick_pc = "read"
    /\ "SOL" \in DOMAIN samples

\* no task waits for one that cannot go on
NoDeadlock ==
    /\ main_pc = "record" => ENABLED main_record
    /\ tick_pc = "preview" => ENABLED tick_preview
    /\ main_pc = "write" => (ENABLED main_write \/ ENABLED tick_preview)
    /\ tick_pc = "read" => (ENABLED tick_read \/ ENABLED main_write \/ ENABLED main_record)
    /\ Len(event_chan) = ChannelCapacity =>
           \/ ENABLED main_recv
           \/ ENABLED main_write
           \/ ENABLED main_record
           \/ ENABLED tick_preview

TickSettlement(sent, i) ==
    sent[CHOOSE j \in 1..i :
            /\ sent[j].type = "settlement"
            /\ \A k \in (j + 1)..i : sent[k].type # "settlement"]

\* C28: in a tick the Settlement is published before the tick's previews,
\* every preview of the tick has in_settlement_window equal to the
\* in_twap_window of that Settlement, and the previews of a tick are computed
\* from one store: no record takes effect between them.
C28_TickIsConsistent ==
    /\ [](LET sent == SelectSeq(bus_log, IsTickEvent)
          IN  /\ sent # <<>> => sent[1].type = "settlement"
              /\ \A i \in DOMAIN sent :
                    sent[i].type = "twap_preview" =>
                        sent[i].preview.in_settlement_window
                            = TickSettlement(sent, i).info.in_twap_window)
    /\ [][tick_pc = "preview" => twap_store' = twap_store]_vars

\* a Price event was published between two previews of a tick in the window
C28_Witness ==
    \E i \in 1..(Len(bus_log) - 2) :
        /\ bus_log[i].type = "twap_preview"
        /\ bus_log[i].preview.in_settlement_window
        /\ bus_log[i + 1].type = "price"
        /\ bus_log[i + 2].type = "twap_preview"

====
